---- MODULE Spec2Model ----
(***************************************************************************)
(* Model of the ticketing-desk client: the per-user sequential ticket-ID   *)
(* allocator of src/lib/ticketUtils.ts running against the transactional   *)
(* document store, and the callers that use it.                            *)
(*                                                                         *)
(* Strings the code builds or parses (ticket IDs) are sequences of         *)
(* one-character strings, so formatting and parsing are computed.          *)
(***************************************************************************)
EXTENDS Integers, Sequences, FiniteSets, TLC

(***************************************************************************)
(* Bounds                                                                  *)
(***************************************************************************)
MaxCalls == 2

Calls == 1..MaxCalls
Users == {"u1", "u2"}
Categories == {"Technical", "Service"}

(* Values of Math.floor(Math.random() * 9999) the model draws from; the    *)
(* full range is 0..9998.                                                  *)
RandomFloors == {0, 9998}

(***************************************************************************)
(* Documents of the store.  A document is a function from the names of the *)
(* fields it has to their values; a field the document lacks is not in its *)
(* DOMAIN.  The collection users/ is a function from the ids of the        *)
(* documents that exist.                                                   *)
(***************************************************************************)
EmptyDoc == [f \in {} |-> 0]

CounterDoc(t, s) == [f \in {"technicalTicketCount", "serviceTicketCount"} |->
                        IF f = "technicalTicketCount" THEN t ELSE s]

(* User records the application can hold when the modelled window opens:   *)
(* fresh from signup, a legacy record without counter fields, and records  *)
(* that already served earlier allocations.                                *)
InitDocsU1 == { CounterDoc(0, 0), EmptyDoc, CounterDoc(3, 0), CounterDoc(9998, 1) }
InitDocsU2 == { CounterDoc(0, 0) }

InitUsers ==
    { [u \in {"u1", "u2"} |-> IF u = "u1" THEN d1 ELSE d2] :
          d1 \in InitDocsU1, d2 \in InitDocsU2 }
    \cup { [u \in {"u1"} |-> d1] : d1 \in {CounterDoc(0, 0), CounterDoc(3, 0)} }

(***************************************************************************)
(* Pure helpers of ticketUtils.ts                                          *)
(***************************************************************************)
DigitChars == <<"0", "1", "2", "3", "4", "5", "6", "7", "8", "9">>
Digits == {DigitChars[i] : i \in 1..10}

DigitValue(ch) == CHOOSE d \in 0..9 : DigitChars[d + 1] = ch

(* Number.prototype.toString() of a non-negative integer *)
RECURSIVE toString(_)
toString(n) == IF n < 10 THEN <<DigitChars[n + 1]>>
               ELSE toString(n \div 10) \o <<DigitChars[(n % 10) + 1]>>

(* String.prototype.padStart with a one-character pad string *)
RECURSIVE padStart(_, _, _)
padStart(s, targetLength, padString) ==
    IF Len(s) >= targetLength THEN s
    ELSE padStart(<<padString>> \o s, targetLength, padString)

(* Variant: the digits are read in base 8. *)
RECURSIVE parseInt_Base8(_)
parseInt_Base8(s) == IF Len(s) = 0 THEN 0
                     ELSE 8 * parseInt_Base8(SubSeq(s, 1, Len(s) - 1))
                              + DigitValue(s[Len(s)])

(* parseInt(s, 10) of a string of decimal digits *)
RECURSIVE parseInt(_)
parseInt(s) == IF Len(s) = 0 THEN 0
               ELSE 10 * parseInt(SubSeq(s, 1, Len(s) - 1)) + DigitValue(s[Len(s)])

(* Variant: every category gets the prefix T. *)
prefix_AlwaysT(category) == "T"

(* Variant: every category gets the prefix S. *)
prefix_AlwaysS(category) == "S"

prefix(category) == IF category = "Technical" THEN "T" ELSE "S"

counterField(category) ==
    IF category = "Technical" THEN "technicalTicketCount" ELSE "serviceTicketCount"

(* Variant: the default of an absent counter is 1. *)
OrZero_OrOne(userData, field) ==
    IF field \in DOMAIN userData /\ userData[field] # 0 THEN userData[field] ELSE 1

(* userData[counterField] || 0 *)
OrZero(userData, field) ==
    IF field \in DOMAIN userData /\ userData[field] # 0 THEN userData[field] ELSE 0

(* Variant: the counter advances by two. *)
nextNumber_Skip(userData, category) == OrZero(userData, counterField(category)) + 2

(* Variant: the stored counter is used as it is. *)
nextNumber_NoIncrement(userData, category) == OrZero(userData, counterField(category))

nextNumber(userData, category) == OrZero(userData, counterField(category)) + 1

(* Variant: the next number is written to both counter fields. *)
updateData_BothCounters(userData, category) ==
    [f \in {"technicalTicketCount", "serviceTicketCount"} |->
        nextNumber(userData, category)]

(* Variant: the value read is written back. *)
updateData_Stale(userData, category) ==
    [f \in {counterField(category)} |-> OrZero(userData, counterField(category))]

updateData(userData, category) ==
    [f \in {counterField(category)} |-> nextNumber(userData, category)]

(* `${prefix}-${paddedNum}` *)
formatId(pre, num) == <<pre, "-">> \o padStart(toString(num), 4, "0")

(* Variant: the pattern lacks the end anchor. *)
isValidTicketId_Unanchored(ticketId) ==
    /\ Len(ticketId) >= 6
    /\ ticketId[1] \in {"T", "S"}
    /\ ticketId[2] = "-"
    /\ \A i \in 3..6 : ticketId[i] \in Digits

(* /^[TS]-\d{4}$/ *)
isValidTicketId(ticketId) ==
    /\ Len(ticketId) = 6
    /\ ticketId[1] \in {"T", "S"}
    /\ ticketId[2] = "-"
    /\ \A i \in 3..6 : ticketId[i] \in Digits

(* Variant: only the first character is compared. *)
startsWith_FirstChar(s, p) == Len(s) >= 1 /\ s[1] = p[1]

startsWith(s, p) == Len(s) >= Len(p) /\ SubSeq(s, 1, Len(p)) = p

getCategoryFromTicketId(ticketId) ==
    IF startsWith(ticketId, <<"T", "-">>) THEN "Technical"
    ELSE IF startsWith(ticketId, <<"S", "-">>) THEN "Service"
    ELSE "null"

(* ticketId.split('-')[1]: the piece between the first hyphen and the next  *)
(* one (or the end); the empty string stands for undefined.                *)
numberPart(ticketId) ==
    LET after(k) == {i \in (k + 1)..Len(ticketId) : ticketId[i] = "-"}
        first(S) == CHOOSE i \in S : \A j \in S : i <= j
        h1 == first(after(0) \cup {Len(ticketId) + 1})
        h2 == first(after(h1) \cup {Len(ticketId) + 1})
    IN  SubSeq(ticketId, h1 + 1, h2 - 1)

(* null is represented by -1 *)
getTicketNumber(ticketId) ==
    IF ~isValidTicketId(ticketId) THEN -1
    ELSE parseInt(numberPart(ticketId))

(* Variant: the write is lost. *)
update_Lost(document, data) == document

(* Variant: transaction.set(ref, data), which replaces the document. *)
update_Set(document, data) == data

(* transaction.update(ref, data): the named fields are set, the document's *)
(* other fields are kept.                                                  *)
update(document, data) ==
    [f \in (DOMAIN document) \cup (DOMAIN data) |->
        IF f \in DOMAIN data THEN data[f] ELSE document[f]]

(* Variant: the reference points at the record of the other user. *)
userRef_Swapped(userId) == IF userId = "u1" THEN "u2" ELSE "u1"

(* Variant: one counter document shared by all users. *)
userRef_Shared(userId) == "u1"

(* doc(db, 'users', userId) *)
userRef(userId) == userId

(***************************************************************************)
(* State                                                                   *)
(***************************************************************************)
VARIABLES
    users,      \* the store: users/{userId} documents that exist
    users0,     \* the store as it was when the window opened (never changes)
    pc,         \* position of each generateUserTicketId call
    userId,     \* argument of each call
    category,   \* argument of each call
    userData,   \* userDoc.data() read by the call's current transaction attempt
    ticketId,   \* string the call resolved with
    path,       \* which return statement produced ticketId
    error,      \* what made the call's transaction reject
    inFlightAtCall, \* the calls that were in flight when the call was made
    commitLog,  \* calls whose transaction committed, in commit order
    lastWriter, \* per document, the call whose transaction wrote it last
    contended,  \* <<c, d>>: an attempt of c was discarded because d committed
    accounts,   \* uids that have an account of the authentication service
    user,       \* AuthContext: uid of the signed-in user, or "null"
    signingUp,  \* uid whose signup() is between account creation and setDoc
    submitting, \* per call slot, whether a handleSubmit awaits its result
    presses,    \* presses of Submit so far
    tickets,    \* the store: ticket documents, the document id is the index
    now,        \* the store's clock, read by serverTimestamp()
    counters,   \* what the last getUserCounters call resolved with
    id,         \* edit screen: id of the ticket being edited, 0 off the screen
    ticket,     \* edit screen: local copy of the ticket's history
    formData,   \* edit screen: the form
    originalFormData, \* edit screen: the form as loaded or last saved
    newNote,    \* edit screen: the note box
    showConfirmDialog, \* edit screen: the leave-without-saving dialog is open
    saving,     \* edit screen: the save awaiting updateDoc, doc 0 if none
    addingNote, \* edit screen: the note awaiting updateDoc, doc 0 if none
    num,        \* the number the examined string was formatted from, 0 if typed
    input,      \* the string handed to the ID helpers
    called,     \* the ID helper applied last
    returned,   \* what it returned
    currentUser, \* auth.currentUser of the authentication service
    ctxUserData, \* AuthContext: userData, the uid it describes or "null"
    isLoggingOut, \* AuthContext: isLoggingOut
    listenerFlag, \* isLoggingOut as captured by the subscribed listener
    initPending, \* the first callback of the subscribed listener is due
    inbox,      \* state changes the subscribed listener is yet to be told
    fetching,   \* callbacks awaiting fetchUserData: <<uid, captured flag>>
    logoutPc,   \* position of the logout() call
    loggedOut   \* logout() cleared the user and no login succeeded since

allocVars == <<users, users0, pc, userId, category, userData, ticketId, path,
               error, inFlightAtCall, commitLog, lastWriter, contended>>

authVars == <<accounts, user, signingUp>>

editVars == <<id, ticket, formData, originalFormData, newNote,
              showConfirmDialog, saving, addingNote>>

utilVars == <<num, input, called, returned>>

listenerVars == <<currentUser, ctxUserData, isLoggingOut, listenerFlag,
                  initPending, inbox, fetching, logoutPc, loggedOut>>

appVars == <<authVars, submitting, presses, tickets, now, counters, editVars,
             utilVars, listenerVars>>

vars == <<allocVars, appVars>>

NoId == <<>>

(* The form of the edit screen; the required text fields are represented   *)
(* by title.                                                               *)
NoForm == [title |-> <<>>, category |-> "Service"]

(* saving and addingNote are false: no updateDoc of the screen is awaited. *)
NoSave == [doc |-> 0, form |-> NoForm]
NoNote == [doc |-> 0, entry |-> [id |-> 0, notes |-> <<>>, type |-> "note"]]

(* No generateUserTicketId call was made, nobody is signed in, no ticket   *)
(* exists.                                                                 *)
InitClient ==
    /\ users \in InitUsers
    /\ users0 = users
    /\ pc = [c \in Calls |-> "idle"]
    /\ userId = [c \in Calls |-> "u1"]
    /\ category = [c \in Calls |-> "Service"]
    /\ userData = [c \in Calls |-> EmptyDoc]
    /\ ticketId = [c \in Calls |-> NoId]
    /\ path = [c \in Calls |-> "none"]
    /\ error = [c \in Calls |-> "none"]
    /\ inFlightAtCall = [c \in Calls |-> {}]
    /\ commitLog = <<>>
    /\ lastWriter = [u \in Users |-> 0]
    /\ contended = {}
    /\ accounts = DOMAIN users
    /\ user = "null"
    /\ signingUp = "null"
    /\ submitting = [c \in Calls |-> FALSE]
    /\ presses = 0
    /\ tickets = <<>>
    /\ now = 0
    /\ counters = [technical |-> 0, service |-> 0]
    /\ id = 0
    /\ ticket = <<>>
    /\ formData = NoForm
    /\ originalFormData = NoForm
    /\ newNote = <<>>
    /\ showConfirmDialog = FALSE
    /\ saving = NoSave
    /\ addingNote = NoNote

(* AuthProvider is mounted: nobody is signed in and the listener's first   *)
(* callback is due.                                                        *)
InitListener ==
    /\ currentUser = "null"
    /\ ctxUserData = "null"
    /\ isLoggingOut = FALSE
    /\ listenerFlag = FALSE
    /\ initPending = TRUE
    /\ inbox = <<>>
    /\ fetching = {}
    /\ logoutPc = "idle"
    /\ loggedOut = FALSE

Init ==
    /\ InitClient
    /\ InitListener
    /\ num = 0
    /\ input = NoId
    /\ called = "none"
    /\ returned = "none"

InFlight(c) == pc[c] \in {"txn", "commit", "catch"}

(***************************************************************************)
(* generateUserTicketId                                                    *)
(***************************************************************************)

(* The call is made: prefix and counterField are selected and               *)
(* runTransaction is invoked.  Calls take the slots 1, 2, ... in call order.*)
Invoke(c, u, cat) ==
    /\ pc[c] = "idle"
    /\ \A b \in Calls : b < c => pc[b] # "idle"
    /\ pc' = [pc EXCEPT ![c] = "txn"]
    /\ userId' = [userId EXCEPT ![c] = u]
    /\ category' = [category EXCEPT ![c] = cat]
    /\ inFlightAtCall' = [inFlightAtCall EXCEPT ![c] =
                             {b \in Calls : b # c /\ InFlight(b)}]
    /\ UNCHANGED <<users, users0, userData, ticketId, path, error,
                   commitLog, lastWriter, contended>>

(* A call by any caller, for any user and category. *)
Call(c, u, cat) ==
    /\ Invoke(c, u, cat)
    /\ UNCHANGED appVars

(* One run of the transaction callback: transaction.get, the existence     *)
(* check, and the buffered transaction.update.  Nothing is written to the  *)
(* store until the commit.                                                 *)
TxnCallback(c) ==
    /\ pc[c] = "txn"
    /\ IF userRef(userId[c]) \in DOMAIN users
       THEN /\ userData' = [userData EXCEPT ![c] = users[userRef(userId[c])]]
            /\ pc' = [pc EXCEPT ![c] = "commit"]
            /\ error' = error
       ELSE /\ error' = [error EXCEPT ![c] = "UserRecordMissing"]
            /\ pc' = [pc EXCEPT ![c] = "catch"]
            /\ userData' = userData
    /\ UNCHANGED appVars
    /\ UNCHANGED <<users, users0, userId, category, ticketId, path, inFlightAtCall,
                   commitLog, lastWriter, contended>>

(* Variant: the commit is accepted whatever happened to the document. *)
Unchanged_NoIsolation(c) == TRUE

(* The document the attempt read is still the stored one. *)
Unchanged(c) ==
    /\ userRef(userId[c]) \in DOMAIN users
    /\ users[userRef(userId[c])] = userData[c]

(* The store commits the attempt: the buffered update is applied and       *)
(* runTransaction resolves with the callback's return value.               *)
TxnCommit(c) ==
    /\ pc[c] = "commit"
    /\ Unchanged(c)
    /\ users' = [users EXCEPT ![userRef(userId[c])] =
                    update(@, updateData(userData[c], category[c]))]
    /\ ticketId' = [ticketId EXCEPT ![c] =
                       formatId(prefix(category[c]),
                                nextNumber(userData[c], category[c]))]
    /\ path' = [path EXCEPT ![c] = "txn"]
    /\ pc' = [pc EXCEPT ![c] = "done"]
    /\ commitLog' = Append(commitLog, c)
    /\ lastWriter' = [lastWriter EXCEPT ![userRef(userId[c])] = c]
    /\ UNCHANGED appVars
    /\ UNCHANGED <<users0, userId, category, userData, error, inFlightAtCall,
                   contended>>

(* The document changed after the attempt read it: the store discards the  *)
(* attempt and runs the callback again.                                    *)
TxnRetry(c) ==
    /\ pc[c] = "commit"
    /\ ~Unchanged(c)
    /\ pc' = [pc EXCEPT ![c] = "txn"]
    /\ contended' = contended \cup {<<c, lastWriter[userRef(userId[c])]>>}
    /\ UNCHANGED appVars
    /\ UNCHANGED <<users, users0, userId, category, userData, ticketId, path,
                   error, inFlightAtCall, commitLog, lastWriter>>

(* The store rejects the transaction (network error, store unavailable,    *)
(* attempts exhausted): nothing is written.                                *)
TxnFail(c) ==
    /\ pc[c] \in {"txn", "commit"}
    /\ error' = [error EXCEPT ![c] = "StoreUnavailable"]
    /\ pc' = [pc EXCEPT ![c] = "catch"]
    /\ UNCHANGED appVars
    /\ UNCHANGED <<users, users0, userId, category, userData, ticketId, path,
                   inFlightAtCall, commitLog, lastWriter, contended>>

(* Variant: the random number is not shifted up by one. *)
randomNum_FromZero(floor) == floor

(* Variant: the random range is one too wide. *)
randomNum_TooWide(floor) == floor + 2

(* Math.floor(Math.random() * 9999) + 1 *)
randomNum(floor) == floor + 1

(* Variant: the catch block never leaves. *)
CatchExit_Spin == "catch"

(* Variant: the catch block starts the transaction again. *)
CatchExit_Retry == "txn"

(* Variant: the catch block rethrows. *)
CatchExit_Rethrow == "threw"

(* Position of the call after its catch block ran. *)
CatchExit == "done"

(* The catch block: the fallback ID is returned. *)
Fallback(c, floor) ==
    /\ pc[c] = "catch"
    /\ ticketId' = [ticketId EXCEPT ![c] =
                       formatId(prefix(category[c]), randomNum(floor))]
    /\ path' = [path EXCEPT ![c] = "fallback"]
    /\ pc' = [pc EXCEPT ![c] = CatchExit]
    /\ UNCHANGED appVars
    /\ UNCHANGED <<users, users0, userId, category, userData, error, inFlightAtCall,
                   commitLog, lastWriter, contended>>

Next ==
    \/ \E c \in Calls, u \in Users, cat \in Categories : Call(c, u, cat)
    \/ \E c \in Calls : TxnCallback(c)
    \/ \E c \in Calls : TxnCommit(c)
    \/ \E c \in Calls : TxnRetry(c)
    \/ \E c \in Calls : TxnFail(c)
    \/ \E c \in Calls, floor \in RandomFloors : Fallback(c, floor)

Spec == Init /\ [][Next]_vars

(* The store answers every transaction: a callback that can run runs, an   *)
(* attempt that can commit commits, a discarded attempt is re-run; and the *)
(* event loop runs the catch block of a rejected call.  A rejection is     *)
(* never forced.                                                           *)
Fairness ==
    \A c \in Calls :
        /\ WF_vars(TxnCallback(c))
        /\ WF_vars(TxnCommit(c))
        /\ WF_vars(TxnRetry(c))
        /\ WF_vars(\E floor \in RandomFloors : Fallback(c, floor))

SpecLive == Init /\ [][Next]_vars /\ Fairness

TypeOK ==
    /\ DOMAIN users \subseteq Users
    /\ pc \in [Calls -> {"idle", "txn", "commit", "catch", "done", "threw"}]
    /\ path \in [Calls -> {"none", "txn", "fallback"}]

(***************************************************************************)
(* The application around the allocator: AuthContext, the new-request      *)
(* screen and the edit screen.  The store and one signed-in client are     *)
(* modelled; each call slot is one press of Submit (presses can overlap    *)
(* when the account is open in more than one session).                     *)
(***************************************************************************)

(* Ticket writes after which the edit screen writes no more. *)
MaxNow == 3

(* Presses of Submit by the modelled client. *)
MaxSubmits == 1

(* Texts typed into the title box and the note box. *)
Titles == { <<"a">>, <<"b">>, <<" ">> }
NoteTexts == { <<>>, <<" ">>, <<" ", "n">> }

(* Values of Date.now() *)
NoteIds == {1, 2}

(* String.prototype.trim *)
RECURSIVE trim(_)
trim(s) == IF Len(s) = 0 THEN s
           ELSE IF s[1] = " " THEN trim(Tail(s))
           ELSE IF s[Len(s)] = " " THEN trim(SubSeq(s, 1, Len(s) - 1))
           ELSE s

(* Variant: the field is overwritten with the new element alone. *)
arrayUnion_Overwrite(array, element) == <<element>>

(* arrayUnion(element): the element is added unless the array has it. *)
arrayUnion(array, element) ==
    IF \E i \in 1..Len(array) : array[i] = element THEN array
    ELSE Append(array, element)

(* setDoc(doc(db, 'users', uid), data) *)
setDoc(collection, uid, data) ==
    [u \in (DOMAIN collection) \cup {uid} |->
        IF u = uid THEN data ELSE collection[u]]

(* signup: the email is free, createUserWithEmailAndPassword creates the   *)
(* account and signs it in; the auth listener sets user.                   *)
signupCreate(u) ==
    /\ user = "null"
    /\ signingUp = "null"
    /\ u \notin DOMAIN users
    /\ u \notin accounts
    /\ accounts' = accounts \cup {u}
    /\ user' = u
    /\ signingUp' = u
    /\ UNCHANGED <<allocVars, submitting, presses, tickets, now, counters,
                   utilVars, listenerVars, editVars>>

(* Variant: the counters of a new record start at 1. *)
signupUserData_FromOne == CounterDoc(1, 1)

(* signup: the userData object (its counter fields). *)
signupUserData == CounterDoc(0, 0)

(* signup: updateProfile resolved and setDoc stores the user record with   *)
(* both counters at 0.                                                     *)
signupSetDoc ==
    /\ signingUp # "null"
    /\ users' = setDoc(users, signingUp, signupUserData)
    /\ signingUp' = "null"
    /\ UNCHANGED <<users0, pc, userId, category, userData, ticketId, path,
                   error, inFlightAtCall, commitLog, lastWriter, contended>>
    /\ UNCHANGED <<accounts, user, submitting, presses, tickets, now, counters,
                   utilVars, listenerVars, editVars>>

(* signup: updateProfile or setDoc rejects; signup throws. *)
signupFail ==
    /\ signingUp # "null"
    /\ signingUp' = "null"
    /\ UNCHANGED <<allocVars, accounts, user, submitting, presses, tickets, now,
                   counters, utilVars, listenerVars, editVars>>

(* login: the user record is found by email and the password is accepted.  *)
login(u) ==
    /\ user = "null"
    /\ u \in DOMAIN users
    /\ u \in accounts
    /\ user' = u
    /\ UNCHANGED <<allocVars, accounts, signingUp, submitting, presses, tickets, now,
                   counters, utilVars, listenerVars, editVars>>

logout ==
    /\ user # "null"
    /\ user' = "null"
    /\ UNCHANGED <<allocVars, accounts, signingUp, submitting, presses, tickets, now,
                   counters, utilVars, listenerVars, editVars>>

(* The new-request screen is showing its spinner: Submit and the form are  *)
(* disabled until handleSubmit ends.                                       *)
loading == \E c \in Calls : submitting[c]

(* handleSubmit up to the call of generateUserTicketId: the form is valid  *)
(* and a user is signed in.                                                *)
handleSubmit(c, cat) ==
    /\ presses < MaxSubmits
    /\ ~loading
    /\ id = 0
    /\ user # "null"
    /\ Invoke(c, user, cat)
    /\ submitting' = [submitting EXCEPT ![c] = TRUE]
    /\ presses' = presses + 1
    /\ UNCHANGED <<authVars, tickets, now, counters, utilVars, listenerVars, editVars>>

(* handleSubmit ends (finally): the promise of the call is dropped and the *)
(* screen can submit again.                                                *)
Settle(c) ==
    /\ submitting' = [submitting EXCEPT ![c] = FALSE]
    /\ pc' = [pc EXCEPT ![c] = "idle"]
    /\ userId' = [userId EXCEPT ![c] = "u1"]
    /\ category' = [category EXCEPT ![c] = "Service"]
    /\ userData' = [userData EXCEPT ![c] = EmptyDoc]
    /\ ticketId' = [ticketId EXCEPT ![c] = NoId]
    /\ path' = [path EXCEPT ![c] = "none"]
    /\ error' = [error EXCEPT ![c] = "none"]
    /\ inFlightAtCall' = [inFlightAtCall EXCEPT ![c] = {}]
    /\ UNCHANGED <<users, users0, commitLog, lastWriter, contended>>

(* handleSubmit after the ID arrived: addDoc stores the ticket. *)
addDoc(c, title) ==
    /\ submitting[c]
    /\ pc[c] = "done"
    /\ trim(title) # <<>>
    /\ tickets' = Append(tickets,
                         [owner |-> userId[c],
                          ticketId |-> ticketId[c],
                          title |-> trim(title),
                          category |-> category[c],
                          status |-> "New",
                          createdAt |-> now,
                          modifiedAt |-> now,
                          history |-> <<>>])
    /\ now' = now + 1
    /\ Settle(c)
    /\ UNCHANGED <<authVars, presses, counters, utilVars, listenerVars, editVars>>

(* handleSubmit: addDoc rejects; the error is shown. *)
addDocFail(c) ==
    /\ submitting[c]
    /\ pc[c] = "done"
    /\ Settle(c)
    /\ UNCHANGED <<authVars, presses, tickets, now, counters,
                   utilVars, listenerVars, editVars>>

(* getUserCounters *)
getUserCounters(u) ==
    /\ counters' = IF u \in DOMAIN users
                   THEN [technical |-> OrZero(users[u], "technicalTicketCount"),
                         service |-> OrZero(users[u], "serviceTicketCount")]
                   ELSE [technical |-> 0, service |-> 0]
    /\ UNCHANGED <<allocVars, authVars, submitting, presses, tickets, now, editVars,
                   utilVars, listenerVars>>

(* The edit screen is opened on a ticket of the signed-in user and         *)
(* loadTicket fills the form.                                              *)
loadTicket(i) ==
    /\ ~loading
    /\ user # "null"
    /\ id = 0
    /\ saving.doc = 0
    /\ addingNote.doc = 0
    /\ i \in 1..Len(tickets)
    /\ tickets[i].owner = user
    /\ id' = i
    /\ ticket' = tickets[i].history
    /\ formData' = [title |-> tickets[i].title, category |-> tickets[i].category]
    /\ originalFormData' = formData'
    /\ newNote' = <<>>
    /\ showConfirmDialog' = FALSE
    /\ UNCHANGED <<allocVars, authVars, submitting, presses, tickets, now, counters,
                   utilVars, listenerVars, saving, addingNote>>

(* The inputs of the form are not editable while saving. *)
updateFormData(field, value) ==
    /\ id # 0
    /\ ~showConfirmDialog
    /\ saving.doc = 0
    /\ formData[field] # value
    /\ formData' = [formData EXCEPT ![field] = value]
    /\ UNCHANGED <<allocVars, authVars, submitting, presses, tickets, now, counters,
                   utilVars, listenerVars,
                   id, ticket, originalFormData, newNote, showConfirmDialog,
                   saving, addingNote>>

(* The note box is not editable while a note is being added. *)
setNewNote(text) ==
    /\ id # 0
    /\ ~showConfirmDialog
    /\ addingNote.doc = 0
    /\ newNote # text
    /\ newNote' = text
    /\ UNCHANGED <<allocVars, authVars, submitting, presses, tickets, now, counters,
                   utilVars, listenerVars,
                   id, ticket, formData, originalFormData, showConfirmDialog,
                   saving, addingNote>>

validateForm == trim(formData.title) # <<>>

hasFormChanges ==
    \/ formData.title # originalFormData.title
    \/ formData.category # originalFormData.category

hasUnsavedChanges == hasFormChanges \/ Len(trim(newNote)) > 0

(* router.back(): the edit screen is left and its state is dropped. *)
Leave ==
    /\ id' = 0
    /\ ticket' = <<>>
    /\ formData' = NoForm
    /\ originalFormData' = NoForm
    /\ newNote' = <<>>
    /\ showConfirmDialog' = FALSE

(* updateDoc(ref, data): the named fields are set, the document's other    *)
(* fields are kept.                                                        *)
updateDoc(document, data) ==
    [f \in (DOMAIN document) \cup (DOMAIN data) |->
        IF f \in DOMAIN data THEN data[f] ELSE document[f]]

(* Variant: the save also writes the status. *)
saveData_WithStatus(form, t) ==
    [title |-> form.title, category |-> form.category, modifiedAt |-> t,
     status |-> "In Progress"]

(* Variant: the save rewrites the ID to match the category of the form. *)
saveData_Regenerated(form, t) ==
    [title |-> form.title, category |-> form.category, modifiedAt |-> t,
     ticketId |-> formatId(prefix(form.category), 1)]

(* The fields handleSave passes to updateDoc. *)
saveData(form, t) ==
    [title |-> form.title, category |-> form.category, modifiedAt |-> t]

(* handleSave up to its await: the Save button is disabled while saving;   *)
(* with an invalid form it returns, with an unchanged form it only shows  *)
(* an alert; otherwise updateDoc is called with the form.                 *)
handleSave ==
    /\ id # 0
    /\ ~showConfirmDialog
    /\ saving.doc = 0
    /\ validateForm
    /\ user # "null"
    /\ saving' = IF hasFormChanges THEN [doc |-> id, form |-> formData] ELSE saving
    /\ UNCHANGED <<allocVars, authVars, submitting, presses, tickets, now, counters,
                   utilVars, listenerVars, id, ticket, formData,
                   originalFormData, newNote, showConfirmDialog, addingNote>>

(* The updateDoc of handleSave returns; ok tells whether it resolves. The  *)
(* handler goes on whether or not its screen is still shown: on success it *)
(* records the saved form and calls router.back().                         *)
handleSaveDone(ok) ==
    /\ saving.doc # 0
    /\ saving' = NoSave
    /\ IF ok /\ tickets[saving.doc].owner = user /\ now < MaxNow
       THEN /\ tickets' = [tickets EXCEPT
                              ![saving.doc] = updateDoc(@, saveData(saving.form, now))]
            /\ now' = now + 1
            /\ IF id # 0
               THEN Leave
               ELSE UNCHANGED <<id, ticket, formData, originalFormData, newNote,
                                showConfirmDialog>>
       ELSE UNCHANGED <<tickets, now, id, ticket, formData, originalFormData,
                        newNote, showConfirmDialog>>
    /\ UNCHANGED <<allocVars, authVars, submitting, presses, counters,
                   utilVars, listenerVars, addingNote>>

(* handleAddNote up to its await; t is Date.now(). The button is disabled  *)
(* while a note is being added, so the notes of a ticket are written one   *)
(* after the other and Date.now() has advanced past the ids of the notes   *)
(* already stored.                                                         *)
handleAddNote(t) ==
    /\ id # 0
    /\ ~showConfirmDialog
    /\ addingNote.doc = 0
    /\ trim(newNote) # <<>>
    /\ user # "null"
    /\ \A i \in 1..Len(tickets[id].history) : tickets[id].history[i].id < t
    /\ LET noteHistoryEntry == [id |-> t, notes |-> trim(newNote), type |-> "note"]
       IN  addingNote' = [doc |-> id, entry |-> noteHistoryEntry]
    /\ UNCHANGED <<allocVars, authVars, submitting, presses, tickets, now, counters,
                   utilVars, listenerVars, id, ticket, formData,
                   originalFormData, newNote, showConfirmDialog, saving>>

(* The updateDoc of handleAddNote returns; ok tells whether it resolves.   *)
(* On success the entry is added to the local history and the note box is *)
(* cleared, if the screen is still shown.                                 *)
handleAddNoteDone(ok) ==
    /\ addingNote.doc # 0
    /\ addingNote' = NoNote
    /\ IF ok /\ tickets[addingNote.doc].owner = user /\ now < MaxNow
       THEN /\ tickets' = [tickets EXCEPT
                              ![addingNote.doc].modifiedAt = now,
                              ![addingNote.doc].history =
                                  arrayUnion(@, addingNote.entry)]
            /\ now' = now + 1
            /\ IF id # 0
               THEN /\ ticket' = Append(ticket, addingNote.entry)
                    /\ newNote' = <<>>
               ELSE UNCHANGED <<ticket, newNote>>
       ELSE UNCHANGED <<tickets, now, ticket, newNote>>
    /\ UNCHANGED <<allocVars, authVars, submitting, presses, counters,
                   utilVars, listenerVars, id, formData,
                   originalFormData, showConfirmDialog, saving>>

(* The back arrow of the header. *)
handleBackPress ==
    /\ id # 0
    /\ ~showConfirmDialog
    /\ IF hasUnsavedChanges
       THEN /\ showConfirmDialog' = TRUE
            /\ UNCHANGED <<id, ticket, formData, originalFormData, newNote>>
       ELSE Leave
    /\ UNCHANGED <<allocVars, authVars, submitting, presses, tickets, now, counters,
                   utilVars, listenerVars, saving, addingNote>>

handleConfirmLeave ==
    /\ showConfirmDialog
    /\ Leave
    /\ UNCHANGED <<allocVars, authVars, submitting, presses, tickets, now, counters,
                   utilVars, listenerVars, saving, addingNote>>

handleCancelLeave ==
    /\ showConfirmDialog
    /\ showConfirmDialog' = FALSE
    /\ UNCHANGED <<allocVars, authVars, submitting, presses, tickets, now, counters,
                   utilVars, listenerVars, saving, addingNote,
                   id, ticket, formData, originalFormData, newNote>>

(* The one client never has two transactions in flight (Submit is disabled *)
(* while loading), so the store never discards an attempt.                 *)
NextApp ==
    \/ \E u \in Users : signupCreate(u)
    \/ signupSetDoc
    \/ signupFail
    \/ \E u \in Users : login(u)
    \/ logout
    \/ \E c \in Calls, cat \in Categories : handleSubmit(c, cat)
    \/ \E c \in Calls : TxnCallback(c)
    \/ \E c \in Calls : TxnCommit(c)
    \/ \E c \in Calls : TxnFail(c)
    \/ \E c \in Calls, floor \in RandomFloors : Fallback(c, floor)
    \/ \E c \in Calls, title \in Titles : addDoc(c, title)
    \/ \E c \in Calls : addDocFail(c)
    \/ \E u \in Users : getUserCounters(u)
    \/ \E i \in 1..MaxSubmits : loadTicket(i)
    \/ \E value \in Titles : updateFormData("title", value)
    \/ \E value \in Categories : updateFormData("category", value)
    \/ \E text \in NoteTexts : setNewNote(text)
    \/ handleSave
    \/ \E ok \in BOOLEAN : handleSaveDone(ok)
    \/ \E t \in NoteIds : handleAddNote(t)
    \/ \E ok \in BOOLEAN : handleAddNoteDone(ok)
    \/ handleBackPress
    \/ handleConfirmLeave
    \/ handleCancelLeave

(* The application starts with one registered user who has allocated      *)
(* before; the other user can sign up.                                     *)
InitApp ==
    /\ Init
    /\ users = [u \in {"u1"} |-> CounterDoc(3, 0)]

SpecApp == InitApp /\ [][NextApp]_vars

(***************************************************************************)
(* The edit screen: a signed-in user creates tickets and edits them.       *)
(***************************************************************************)
NextEdit ==
    \/ \E u \in Users : login(u)
    \/ \E c \in Calls, cat \in Categories : handleSubmit(c, cat)
    \/ \E c \in Calls : TxnCallback(c)
    \/ \E c \in Calls : TxnCommit(c)
    \/ \E c \in Calls, title \in Titles : addDoc(c, title)
    \/ \E i \in 1..MaxSubmits : loadTicket(i)
    \/ \E value \in Titles : updateFormData("title", value)
    \/ \E value \in Categories : updateFormData("category", value)
    \/ \E text \in NoteTexts : setNewNote(text)
    \/ handleSave
    \/ \E ok \in BOOLEAN : handleSaveDone(ok)
    \/ \E t \in NoteIds : handleAddNote(t)
    \/ \E ok \in BOOLEAN : handleAddNoteDone(ok)
    \/ handleBackPress
    \/ handleConfirmLeave
    \/ handleCancelLeave

SpecEdit == InitApp /\ [][NextEdit]_vars

(***************************************************************************)
(* Signup followed by allocations of the signed-in user, from any number   *)
(* of sessions of that user at once.                                       *)
(***************************************************************************)

(* generateUserTicketId is called for the signed-in user. *)
CallSignedIn(c, cat) ==
    /\ user # "null"
    /\ Call(c, user, cat)

NextSignup ==
    \/ \E u \in Users : signupCreate(u)
    \/ signupSetDoc
    \/ signupFail
    \/ \E u \in Users : login(u)
    \/ logout
    \/ \E c \in Calls, cat \in Categories : CallSignedIn(c, cat)
    \/ \E c \in Calls : TxnCallback(c)
    \/ \E c \in Calls : TxnCommit(c)
    \/ \E c \in Calls : TxnRetry(c)
    \/ \E c \in Calls : TxnFail(c)
    \/ \E c \in Calls, floor \in RandomFloors : Fallback(c, floor)

SpecSignup == InitApp /\ [][NextSignup]_vars

(***************************************************************************)
(* Submissions of the new-request screen from several sessions at once:    *)
(* each session has its own loading flag, so presses overlap.              *)
(***************************************************************************)

(* handleSubmit in a session that is not loading. *)
handleSubmitSession(c, cat) ==
    /\ presses < MaxCalls
    /\ user # "null"
    /\ Invoke(c, user, cat)
    /\ submitting' = [submitting EXCEPT ![c] = TRUE]
    /\ presses' = presses + 1
    /\ UNCHANGED <<authVars, tickets, now, counters, editVars, utilVars, listenerVars>>

NextSubmit ==
    \/ \E u \in Users : login(u)
    \/ logout
    \/ \E c \in Calls, cat \in Categories : handleSubmitSession(c, cat)
    \/ \E c \in Calls : TxnCallback(c)
    \/ \E c \in Calls : TxnCommit(c)
    \/ \E c \in Calls : TxnRetry(c)
    \/ \E c \in Calls : TxnFail(c)
    \/ \E c \in Calls, floor \in RandomFloors : Fallback(c, floor)
    \/ \E c \in Calls, title \in Titles : addDoc(c, title)
    \/ \E c \in Calls : addDocFail(c)

(* Two registered users, one of whom has allocated before. *)
InitSubmit ==
    /\ Init
    /\ users = [u \in Users |-> IF u = "u1" THEN CounterDoc(3, 0) ELSE CounterDoc(0, 0)]

SpecSubmit == InitSubmit /\ [][NextSubmit]_vars

(***************************************************************************)
(* AuthProvider in detail: the onAuthStateChanged listener, the effect     *)
(* that re-subscribes it when isLoggingOut changes, login and logout.      *)
(* The other specifications use login and logout above, their net effect.  *)
(***************************************************************************)

restVars == <<allocVars, accounts, signingUp, submitting, presses, tickets, now,
              counters, editVars, utilVars>>

(* Variant: isLoggingOut is not a dependency of the effect. *)
effectStale_NoDependency == FALSE

(* A dependency of the listener effect changed since it last ran. *)
effectStale == listenerFlag # isLoggingOut

(* Effects and the service's callbacks are run before the next press of a  *)
(* button is handled; network and storage round trips (signOut, getDoc,    *)
(* sign-in) are not.                                                       *)
settled == inbox = <<>> /\ ~initPending /\ ~effectStale

(* login: the record is found by email and signInWithEmailAndPassword      *)
(* resolves; the service notifies the subscribed listener.                 *)
signIn(u) ==
    /\ user = "null"
    /\ currentUser = "null"
    /\ logoutPc = "idle"
    /\ settled
    /\ u \in DOMAIN users
    /\ u \in accounts
    /\ currentUser' = u
    /\ inbox' = Append(inbox, u)
    /\ loggedOut' = FALSE
    /\ UNCHANGED <<restVars, user, ctxUserData, isLoggingOut, listenerFlag,
                   initPending, fetching, logoutPc>>

(* logout up to the await of signOut: the dashboard's button is enabled    *)
(* while isLoggingOut is false.                                            *)
logoutCall ==
    /\ user # "null"
    /\ ~isLoggingOut
    /\ logoutPc = "idle"
    /\ settled
    /\ isLoggingOut' = TRUE
    /\ user' = "null"
    /\ ctxUserData' = "null"
    /\ logoutPc' = "signingOut"
    /\ loggedOut' = TRUE
    /\ UNCHANGED <<restVars, currentUser, listenerFlag, initPending, inbox, fetching>>

(* signOut resolves: nobody is signed in, and the listener is notified if  *)
(* somebody was.                                                           *)
signOutResolve ==
    /\ logoutPc = "signingOut"
    /\ currentUser' = "null"
    /\ inbox' = IF currentUser # "null" THEN Append(inbox, "null") ELSE inbox
    /\ logoutPc' = "idle"
    /\ UNCHANGED <<restVars, user, ctxUserData, isLoggingOut, listenerFlag,
                   initPending, fetching, loggedOut>>

(* signOut rejects: the catch block resets isLoggingOut and logout throws; *)
(* the account stays signed in.                                            *)
signOutReject ==
    /\ logoutPc = "signingOut"
    /\ isLoggingOut' = FALSE
    /\ logoutPc' = "idle"
    /\ loggedOut' = FALSE
    /\ UNCHANGED <<restVars, user, currentUser, ctxUserData, listenerFlag,
                   initPending, inbox, fetching>>

(* The effect runs again: the old listener is unsubscribed (what it was    *)
(* yet to be told is dropped) and a new one, capturing the current         *)
(* isLoggingOut, is subscribed; its first callback is due.                 *)
authEffect ==
    /\ effectStale
    /\ listenerFlag' = isLoggingOut
    /\ initPending' = TRUE
    /\ inbox' = <<>>
    /\ UNCHANGED <<restVars, user, currentUser, ctxUserData, isLoggingOut, fetching,
                   logoutPc, loggedOut>>

(* if (user) of the listener callback *)
acceptsUser(v) == v # "null"

(* The listener callback up to its first await, called with v by a         *)
(* listener that captured flag.                                            *)
callback(v, flag) ==
    IF acceptsUser(v)
    THEN /\ user' = v
         /\ fetching' = fetching \cup {<<v, flag>>}
         /\ UNCHANGED <<ctxUserData, isLoggingOut>>
    ELSE /\ user' = "null"
         /\ ctxUserData' = "null"
         /\ isLoggingOut' = IF flag THEN FALSE ELSE isLoggingOut
         /\ fetching' = fetching

(* The first callback of a new listener, with the account signed in at the *)
(* moment it is delivered.                                                 *)
initialCallback ==
    /\ initPending
    /\ initPending' = FALSE
    /\ callback(currentUser, listenerFlag)
    /\ UNCHANGED <<restVars, currentUser, listenerFlag, inbox, logoutPc, loggedOut>>

(* The subscribed listener is told of a state change. *)
stateChangeCallback ==
    /\ inbox # <<>>
    /\ inbox' = Tail(inbox)
    /\ callback(Head(inbox), listenerFlag)
    /\ UNCHANGED <<restVars, currentUser, listenerFlag, initPending, logoutPc,
                   loggedOut>>

(* fetchUserData of a callback returns: userData is set and the callback   *)
(* goes on, whether or not its listener is still subscribed.               *)
fetchUserDataDone(v, flag) ==
    /\ <<v, flag>> \in fetching
    /\ fetching' = fetching \ {<<v, flag>>}
    /\ ctxUserData' = v
    /\ isLoggingOut' = IF flag THEN FALSE ELSE isLoggingOut
    /\ UNCHANGED <<restVars, user, currentUser, listenerFlag, initPending, inbox,
                   logoutPc, loggedOut>>

NextAuth ==
    \/ \E u \in Users : signIn(u)
    \/ logoutCall
    \/ signOutResolve
    \/ signOutReject
    \/ authEffect
    \/ initialCallback
    \/ stateChangeCallback
    \/ \E v \in Users, flag \in BOOLEAN : fetchUserDataDone(v, flag)

SpecAuth == InitSubmit /\ [][NextAuth]_vars

(* Every pending step of the provider is eventually taken: effects run,    *)
(* callbacks are delivered, fetchUserData and signOut settle.              *)
FairnessAuth ==
    /\ WF_vars(authEffect)
    /\ WF_vars(initialCallback)
    /\ WF_vars(stateChangeCallback)
    /\ \A v \in Users, flag \in BOOLEAN : WF_vars(fetchUserDataDone(v, flag))
    /\ WF_vars(signOutResolve \/ signOutReject)

SpecAuthLive == InitSubmit /\ [][NextAuth]_vars /\ FairnessAuth

(***************************************************************************)
(* The ID helpers of ticketUtils.ts applied to strings: every ID formatted *)
(* from a number, and typed strings of all shapes around the ID format.    *)
(***************************************************************************)

(* The largest number that has four digits. *)
MaxNumber == 9999

(* Characters typed after the separator, at most this many. *)
MaxDigits == 5

Heads == {"T", "S", "X", "t"}
Separators == {"-", "_"}
TailChars == {"0", "1", "7", "a"}

RECURSIVE StringsOfLen(_, _)
StringsOfLen(alphabet, n) ==
    IF n = 0 THEN {<<>>}
    ELSE {Append(w, ch) : w \in StringsOfLen(alphabet, n - 1), ch \in alphabet}

TypedInputs ==
    {<<h, sep>> \o w : h \in Heads, sep \in Separators,
                       w \in UNION {StringsOfLen(TailChars, n) : n \in 0..MaxDigits}}
    \cup { <<>>,
           <<"T">>,
           <<"b", "a", "d", "-", "i", "d">>,
           <<"S", "-", "0", "0", "4", "2">>,
           <<" ", "T", "-", "0", "0", "0", "7">>,
           <<"T", "-", "0", "0", "0", "7", " ">>,
           <<"T", "-", "0", "0", "-", "7">>,
           <<"T", "S", "-", "0", "0", "0", "7">> }

InitUtil ==
    /\ InitClient
    /\ InitListener
    /\ users = [u \in {"u1"} |-> CounterDoc(3, 0)]
    /\ \/ /\ num \in 1..MaxNumber
          /\ \E cat \in Categories : input = formatId(prefix(cat), num)
       \/ /\ num = 0
          /\ input \in TypedInputs
    /\ called = "none"
    /\ returned = "none"

CallIsValidTicketId ==
    /\ called' = "isValidTicketId"
    /\ returned' = isValidTicketId(input)
    /\ UNCHANGED <<allocVars, authVars, submitting, presses, tickets, now, counters,
                   editVars, listenerVars, num, input>>

CallGetCategoryFromTicketId ==
    /\ called' = "getCategoryFromTicketId"
    /\ returned' = getCategoryFromTicketId(input)
    /\ UNCHANGED <<allocVars, authVars, submitting, presses, tickets, now, counters,
                   editVars, listenerVars, num, input>>

CallGetTicketNumber ==
    /\ called' = "getTicketNumber"
    /\ returned' = getTicketNumber(input)
    /\ UNCHANGED <<allocVars, authVars, submitting, presses, tickets, now, counters,
                   editVars, listenerVars, num, input>>

NextUtil ==
    \/ CallIsValidTicketId
    \/ CallGetCategoryFromTicketId
    \/ CallGetTicketNumber

SpecUtil == InitUtil /\ [][NextUtil]_vars

(***************************************************************************)
(* Vocabulary of the properties                                            *)
(***************************************************************************)
CallsOf(u, cat) ==
    {c \in Calls : pc[c] # "idle" /\ userId[c] = u /\ category[c] = cat}

(* Value of a counter of a stored document, an absent field counting as 0. *)
Count(document, cat) ==
    IF counterField(cat) \in DOMAIN document THEN document[counterField(cat)] ELSE 0

(* Committed allocations of (u, cat) made before the window opened. *)
base(u, cat) == IF u \in DOMAIN users0 THEN Count(users0[u], cat) ELSE 0

(* The decimal number after the hyphen of an ID. *)
numberOf(tid) == parseInt(SubSeq(tid, 3, Len(tid)))

Letter(cat) == IF cat = "Technical" THEN "T" ELSE "S"

(* Calls for the (user, category) of c made no later than c. *)
UpTo(c) == {b \in CallsOf(userId[c], category[c]) : b <= c}

(* c returned, and it and all earlier calls for its (user, category) ran   *)
(* one after another, each committing, on a record whose counter was 0.    *)
SerialFromZero(c) ==
    /\ pc[c] = "done"
    /\ userId[c] \in DOMAIN users0
    /\ base(userId[c], category[c]) = 0
    /\ \A b \in UpTo(c) : path[b] = "txn"
    /\ \A b \in CallsOf(userId[c], category[c]) :
           inFlightAtCall[b] \cap CallsOf(userId[c], category[c]) = {}

(* C1: when generateUserTicketId is called one call after another for the  *)
(* same user and category, starting from a counter of 0 and with every     *)
(* transaction committing, the k-th call returns the category's prefix, a  *)
(* hyphen and k zero-padded to 4 digits.                                   *)
C1_SerialNumbers ==
    \A c \in Calls :
        SerialFromZero(c) =>
            ticketId[c] = <<Letter(category[c]), "-", "0", "0", "0",
                            DigitChars[Cardinality(UpTo(c)) + 1]>>

C1_Witness ==
    \E c \in Calls :
        /\ SerialFromZero(c)
        /\ Cardinality(UpTo(c)) = 2
        /\ ticketId[c][6] = "2"

AllCommitted(u, cat) ==
    /\ CallsOf(u, cat) # {}
    /\ \A c \in CallsOf(u, cat) : path[c] = "txn"

(* C2: when all the calls made for one user and category, however their    *)
(* transaction steps interleave, have committed on a record whose counter  *)
(* was 0, the numbers they returned are exactly 1..M, M the number of      *)
(* calls: none twice, none skipped.                                        *)
C2_ConcurrentNumbers ==
    \A u \in DOMAIN users0, cat \in Categories :
        (base(u, cat) = 0 /\ AllCommitted(u, cat)) =>
            /\ {numberOf(ticketId[c]) : c \in CallsOf(u, cat)}
                   = 1..Cardinality(CallsOf(u, cat))
            /\ \A c, d \in CallsOf(u, cat) : c # d => ticketId[c] # ticketId[d]

C2_Witness ==
    \E u \in DOMAIN users0, cat \in Categories :
        /\ base(u, cat) = 0
        /\ AllCommitted(u, cat)
        /\ Cardinality(CallsOf(u, cat)) = MaxCalls
        /\ \E c, d \in CallsOf(u, cat) : <<c, d>> \in contended

(* The committed allocations of (u, cat), in commit order. *)
CommittedOf(u, cat) ==
    LET mine(c) == userId[c] = u /\ category[c] = cat
    IN  SelectSeq(commitLog, mine)

(* C3: in every state, for each user and category, the n-th allocation     *)
(* whose transaction committed (counted from the creation of the record)   *)
(* returned the number n, and no two committed allocations returned the    *)
(* same number; allocations that fell back do not consume a number.        *)
C3_NthCommittedIsN ==
    \A u \in DOMAIN users0, cat \in Categories :
        LET log == CommittedOf(u, cat)
        IN  /\ \A i \in 1..Len(log) :
                   numberOf(ticketId[log[i]]) = base(u, cat) + i
            /\ \A i, j \in 1..Len(log) :
                   i # j => ticketId[log[i]] # ticketId[log[j]]

C3_Witness ==
    \E b, c \in Calls :
        /\ b < c
        /\ userId[b] = userId[c] /\ category[b] = category[c]
        /\ path[b] = "fallback" /\ error[b] = "StoreUnavailable"
        /\ path[c] = "txn"
        /\ numberOf(ticketId[c]) = base(userId[c], category[c]) + 1

(* The ID has the letter of the category, a hyphen and four decimal digits. *)
WellFormedFor(tid, cat) ==
    /\ Len(tid) = 6
    /\ tid[1] = Letter(cat)
    /\ tid[2] = "-"
    /\ \A i \in 3..6 : tid[i] \in Digits

(* The call c takes a step. *)
Steps(c) == pc'[c] # pc[c]

(* C4: whenever the transaction of a call fails, at whatever point, the    *)
(* call returns the category's prefix, a hyphen and four decimal digits,   *)
(* and no step of the call other than a commit changes any stored counter. *)
C4_FallbackKeepsCounter ==
    /\ [](\A c \in Calls :
             path[c] = "fallback" => WellFormedFor(ticketId[c], category[c]))
    /\ [][\A c \in Calls :
             (Steps(c) /\ path'[c] # "txn") => users' = users]_vars

C4_Witness ==
    \E c \in Calls :
        /\ path[c] = "fallback"
        /\ error[c] = "StoreUnavailable"
        /\ userData[c] # EmptyDoc
        /\ Count(users[userId[c]], category[c])
               = base(userId[c], category[c])
                     + Len(CommittedOf(userId[c], category[c]))

(* C5: generateUserTicketId never ends by throwing: whatever the outcome   *)
(* of the transaction, a finished call holds a ticket ID of its category;  *)
(* when users/{userId} does not exist the call falls back and the record   *)
(* is still not there.                                                     *)
C5_NeverThrows ==
    \A c \in Calls :
        /\ pc[c] # "threw"
        /\ pc[c] = "done" =>
               /\ path[c] \in {"txn", "fallback"}
               /\ Len(ticketId[c]) >= 3
               /\ ticketId[c][1] = Letter(category[c])
        /\ error[c] = "UserRecordMissing" =>
               /\ userId[c] \notin DOMAIN users
               /\ path[c] # "txn"
               /\ pc[c] = "done" => path[c] = "fallback"

C5_Witness ==
    \E c \in Calls :
        /\ pc[c] = "done"
        /\ error[c] = "UserRecordMissing"
        /\ path[c] = "fallback"
        /\ isValidTicketId(ticketId[c])

(* C6: every identifier generateUserTicketId returns, on the transactional *)
(* path and on the fallback path, is accepted by isValidTicketId.          *)
C6_AlwaysValid ==
    \A c \in Calls : pc[c] = "done" => isValidTicketId(ticketId[c])

(* Field f of the record of u is the same before and after the step. *)
SameField(u, f) ==
    /\ (f \in DOMAIN users[u]) = (f \in DOMAIN users'[u])
    /\ f \in DOMAIN users[u] => users'[u][f] = users[u][f]

(* C7: a step of a call for one category, committing or failing, leaves    *)
(* the counter of the other category of that user as it was.               *)
C7_OtherCategoryUntouched ==
    [][\A c \in Calls, cat \in Categories :
          (Steps(c) /\ cat # category'[c] /\ userId'[c] \in DOMAIN users)
              => /\ userId'[c] \in DOMAIN users'
                 /\ SameField(userId'[c], counterField(cat))]_vars

C7_Witness ==
    \E c \in Calls :
        /\ path[c] = "txn"
        /\ category[c] = "Technical"
        /\ users[userId[c]]["technicalTicketCount"] = 4
        /\ users[userId[c]]["serviceTicketCount"]
               = users0[userId[c]]["serviceTicketCount"]

(* C8: a committing call that finds the stored counter of its category at  *)
(* k (an absent field counting as 0) returns the number k+1 with the       *)
(* category's prefix and leaves the stored counter at k+1.                 *)
C8_CommitReturnsStored ==
    [][\A c \in Calls :
          (pc[c] = "commit" /\ pc'[c] = "done") =>
              LET k == Count(users[userId[c]], category[c])
              IN  /\ users'[userId[c]][counterField(category[c])] = k + 1
                  /\ numberOf(ticketId'[c]) = k + 1
                  /\ ticketId'[c][1] = Letter(category[c])]_vars

C8_Witness ==
    \E c \in Calls :
        /\ path[c] = "txn"
        /\ users0[userId[c]] = CounterDoc(3, 0)
        /\ ticketId[c] = <<"T", "-", "0", "0", "0", "4">>
        /\ users[userId[c]]["technicalTicketCount"] = 4

(* C10 as stated: an attempt is discarded only because of a call for the   *)
(* same user and the same category.                                        *)
C10_NeverContend ==
    \A p \in contended :
        userId[p[1]] = userId[p[2]] /\ category[p[1]] = category[p[2]]

(* C10: concurrent calls for different users never contend; an attempt is  *)
(* discarded only because a call for the same user committed.              *)
C10_DifferentUsersNeverContend ==
    \A p \in contended : p[2] \in Calls /\ userId[p[1]] = userId[p[2]]

C10_Witness ==
    /\ \A c \in Calls : path[c] = "txn"
    /\ userId[1] # userId[2]
    /\ 1 \in inFlightAtCall[2]
    /\ commitLog = <<2, 1>>
    /\ contended = {}

(* The stored counter of (u, cat); 0 while the record or the field is      *)
(* missing.                                                                *)
StoredCount(u, cat) == IF u \in DOMAIN users THEN Count(users[u], cat) ELSE 0

(* C9: over every step of the application (signup, login, logout, ticket   *)
(* creation, allocation steps, getUserCounters, ticket edit, note append)  *)
(* no user record disappears and no counter decreases; a step that changes *)
(* a counter raises it by exactly 1 and is the commit of exactly one       *)
(* allocation for that user and category.                                  *)
C9_CounterOnlyCommits ==
    [][\A u \in Users, cat \in Categories :
          /\ u \in DOMAIN users => u \in DOMAIN users'
          /\ StoredCount(u, cat)' # StoredCount(u, cat) =>
                /\ StoredCount(u, cat)' = StoredCount(u, cat) + 1
                /\ \E c \in Calls :
                      /\ pc[c] = "commit" /\ pc'[c] = "done"
                      /\ path'[c] = "txn"
                      /\ userId[c] = u /\ category[c] = cat
                      /\ commitLog' = Append(commitLog, c)]_vars

(* A committed allocation advanced a counter; afterwards its ticket was     *)
(* stored and got a note, the counters were read and the user logged out.  *)
C9_Witness ==
    /\ Len(commitLog) >= 1
    /\ \E i \in 1..Len(tickets) :
          /\ Len(tickets[i].history) = 1
          /\ StoredCount(tickets[i].owner, tickets[i].category)
                 = base(tickets[i].owner, tickets[i].category) + Len(commitLog)
          /\ counters[IF tickets[i].category = "Technical"
                      THEN "technical" ELSE "service"]
                 = StoredCount(tickets[i].owner, tickets[i].category)
    /\ ~loading
    /\ user = "null"

(* C11: the ticketId attribute of a ticket record is written when the      *)
(* record is created by handleSubmit, with the ID the allocator returned   *)
(* to that submission, and no later step (handleSave, handleAddNote or any *)
(* other) changes or removes it, or removes the record.                    *)
C11_TicketIdWrittenOnce ==
    [][/\ Len(tickets') >= Len(tickets)
       /\ \A i \in 1..Len(tickets) :
              /\ "ticketId" \in DOMAIN tickets'[i]
              /\ tickets'[i].ticketId = tickets[i].ticketId
       /\ Len(tickets') > Len(tickets) =>
              /\ Len(tickets') = Len(tickets) + 1
              /\ \E c \in Calls :
                    /\ submitting[c] /\ ~submitting'[c]
                    /\ tickets'[Len(tickets')].ticketId = ticketId[c]
                    /\ ticketId[c] # NoId]_vars

(* A ticket was saved with its category changed and kept the ID it was     *)
(* created with.                                                           *)
C11_Witness ==
    \E i \in 1..Len(tickets) :
        /\ tickets[i].modifiedAt > tickets[i].createdAt
        /\ tickets[i].history = <<>>
        /\ tickets[i].category # getCategoryFromTicketId(tickets[i].ticketId)
        /\ isValidTicketId(tickets[i].ticketId)

(* A ticket got a note and kept the ID it was created with. *)
C11_NoteWitness ==
    \E i \in 1..Len(tickets) :
        /\ Len(tickets[i].history) = 1
        /\ isValidTicketId(tickets[i].ticketId)

(* C12: for every user and category, the ID a call returned, by the        *)
(* transaction or by the fallback, starts with T- when the category is     *)
(* Technical and with S- otherwise, and getCategoryFromTicketId applied to *)
(* it gives the requested category.                                        *)
C12_PrefixMatchesCategory ==
    \A c \in Calls :
        pc[c] = "done" =>
            /\ startsWith(ticketId[c], <<Letter(category[c]), "-">>)
            /\ getCategoryFromTicketId(ticketId[c]) = category[c]

C12_Witness ==
    \E c, d \in Calls :
        /\ pc[c] = "done" /\ path[c] = "txn" /\ category[c] = "Technical"
        /\ getCategoryFromTicketId(ticketId[c]) = "Technical"
        /\ pc[d] = "done" /\ path[d] = "fallback" /\ category[d] = "Service"
        /\ getCategoryFromTicketId(ticketId[d]) = "Service"
        /\ userId[c] # userId[d]

(* C13: on the fallback path the returned ID is the prefix, a hyphen and   *)
(* exactly four decimal digits whose value n is an integer with            *)
(* 1 <= n <= 9999 (never 0, never 10000).                                  *)
C13_FallbackRange ==
    \A c \in Calls :
        path[c] = "fallback" =>
            /\ Len(ticketId[c]) = 6
            /\ \A i \in 3..6 : ticketId[c][i] \in Digits
            /\ numberOf(ticketId[c]) >= 1
            /\ numberOf(ticketId[c]) <= 9999
            /\ ticketId[c] = <<ticketId[c][1], "-">>
                                \o padStart(toString(numberOf(ticketId[c])), 4, "0")

(* Both ends of the random range were drawn. *)
C13_Witness ==
    \E c, d \in Calls :
        /\ path[c] = "fallback" /\ path[d] = "fallback"
        /\ SubSeq(ticketId[c], 3, 6) = <<"0", "0", "0", "1">>
        /\ SubSeq(ticketId[d], 3, 6) = <<"9", "9", "9", "9">>

(* The rank of the committed allocation c among the committed allocations  *)
(* of its user and category, counted from the creation of the record.      *)
Ordinal(c) ==
    LET log == CommittedOf(userId[c], category[c])
    IN  base(userId[c], category[c]) + (CHOOSE i \in 1..Len(log) : log[i] = c)

(* C14: a step of an allocation for one user reads only that user's record *)
(* and leaves the record of every other user as it was; and IDs are unique *)
(* only per (user, category): two different users whose committed          *)
(* allocations have the same rank in the same category hold the same ID.   *)
C14_PerUserOnly ==
    /\ [][\A c \in Calls :
             Steps(c) =>
                /\ \A v \in DOMAIN users :
                       v # userId'[c] => (v \in DOMAIN users' /\ users'[v] = users[v])
                /\ DOMAIN users' = DOMAIN users
                /\ userData'[c] # userData[c] =>
                       /\ userId[c] \in DOMAIN users
                       /\ userData'[c] = users[userId[c]]]_vars
    /\ [](\A c, d \in Calls :
             (/\ path[c] = "txn" /\ path[d] = "txn"
              /\ userId[c] # userId[d]
              /\ category[c] = category[d]
              /\ Ordinal(c) = Ordinal(d)) => ticketId[c] = ticketId[d])

(* Two users made their first committed allocation in the same category    *)
(* concurrently and hold the same ID.                                      *)
C14_Witness ==
    \E c, d \in Calls :
        /\ path[c] = "txn" /\ path[d] = "txn"
        /\ userId[c] = "u1" /\ userId[d] = "u2"
        /\ category[c] = category[d]
        /\ c \in inFlightAtCall[d]
        /\ ticketId[c] = ticketId[d]
        /\ ticketId[c][6] = "1"
        /\ users[userId[c]][counterField(category[c])] = 1
        /\ users[userId[d]][counterField(category[d])] = 1

(* C15: two finished allocations of the same user and category hold the    *)
(* same ID only if at least one of them took the fallback path; and a      *)
(* fallback ID has the very form of a transactional one (the prefix of the *)
(* category, a hyphen, four digits), so the returned string alone does not *)
(* tell the two apart.                                                     *)
C15_DuplicatesNeedFallback ==
    /\ \A c, d \in Calls :
           (/\ c # d
            /\ pc[c] = "done" /\ pc[d] = "done"
            /\ userId[c] = userId[d] /\ category[c] = category[d]
            /\ ticketId[c] = ticketId[d])
               => (path[c] = "fallback" \/ path[d] = "fallback")
    /\ \A c \in Calls :
           path[c] = "fallback" => WellFormedFor(ticketId[c], category[c])

(* A fallback returned the ID that a committed allocation of the same user *)
(* and category had been given before.                                     *)
C15_Witness ==
    \E c, d \in Calls :
        /\ c < d
        /\ userId[c] = userId[d] /\ category[c] = category[d]
        /\ path[c] = "txn" /\ path[d] = "fallback"
        /\ c \notin inFlightAtCall[d]
        /\ ticketId[c] = ticketId[d]
        /\ isValidTicketId(ticketId[d])

(* Two fallbacks of the same user and category returned the same ID. *)
C15_TwoFallbacks ==
    \E c, d \in Calls :
        /\ c # d
        /\ userId[c] = userId[d] /\ category[c] = category[d]
        /\ path[c] = "fallback" /\ path[d] = "fallback"
        /\ ticketId[c] = ticketId[d]

(* The strings made of the letter T or S, a hyphen and exactly four        *)
(* decimal digits.                                                         *)
FourDigitIds ==
    {<<h, "-", d1, d2, d3, d4>> :
        h \in {"T", "S"}, d1 \in Digits, d2 \in Digits, d3 \in Digits, d4 \in Digits}

(* C16: isValidTicketId(id) is true exactly when id is T or S, a hyphen    *)
(* and exactly four decimal digits, nothing else: T-0007 is valid; T-007,  *)
(* T-00007, X-0001 and t-0001 are not.                                     *)
C16_ValidExactlyFourDigits ==
    called = "isValidTicketId" =>
        /\ returned = (input \in FourDigitIds)
        /\ input = <<"T", "-", "0", "0", "0", "7">> => returned = TRUE
        /\ input \in { <<"T", "-", "0", "0", "7">>,
                        <<"T", "-", "0", "0", "0", "0", "7">>,
                        <<"X", "-", "0", "0", "0", "1">>,
                        <<"t", "-", "0", "0", "0", "1">> } => returned = FALSE

C16_Witness ==
    /\ called = "isValidTicketId"
    /\ input = <<"T", "-", "0", "0", "0", "0", "7">>
    /\ returned = FALSE

(* The value of the four digits after the hyphen. *)
SuffixValue(tid) ==
    1000 * DigitValue(tid[3]) + 100 * DigitValue(tid[4])
        + 10 * DigitValue(tid[5]) + DigitValue(tid[6])

(* C17: getTicketNumber(id) is the integer value of the four-digit suffix  *)
(* when isValidTicketId(id) holds and null otherwise; for each prefix and  *)
(* each n in 1..9999 the number of the ID formatted from n is n; S-0042    *)
(* gives 42 and bad-id gives null.                                         *)
C17_NumberRoundTrip ==
    called = "getTicketNumber" =>
        /\ input \in FourDigitIds => returned = SuffixValue(input)
        /\ input \notin FourDigitIds => returned = -1
        /\ num # 0 => returned = num
        /\ input = <<"S", "-", "0", "0", "4", "2">> => returned = 42
        /\ input = <<"b", "a", "d", "-", "i", "d">> => returned = -1

C17_Witness ==
    /\ called = "getTicketNumber"
    /\ num = MaxNumber
    /\ input = <<"T", "-", "9", "9", "9", "9">>
    /\ returned = MaxNumber

(* C18: getCategoryFromTicketId(id) is Technical when id begins with T-,   *)
(* Service when it begins with S-, and null in every other case; it is not *)
(* null for any id that isValidTicketId accepts.                           *)
C18_CategoryFromPrefix ==
    called = "getCategoryFromTicketId" =>
        /\ returned =
              IF Len(input) >= 2 /\ input[1] = "T" /\ input[2] = "-" THEN "Technical"
              ELSE IF Len(input) >= 2 /\ input[1] = "S" /\ input[2] = "-" THEN "Service"
              ELSE "null"
        /\ isValidTicketId(input) => returned # "null"

C18_Witness ==
    /\ called = "getCategoryFromTicketId"
    /\ input = <<"S", "-", "0", "0", "4", "2">>
    /\ isValidTicketId(input)
    /\ returned = "Service"

(* An ID-like string with the wrong separator has no category. *)
C18_NullWitness ==
    /\ called = "getCategoryFromTicketId"
    /\ input = <<"T", "_", "0", "0", "0", "1">>
    /\ returned = "null"

(* C19: a call invokes runTransaction once, when it is made; a callback    *)
(* runs again only because the store discarded the attempt (a retry inside *)
(* runTransaction); once runTransaction rejected, the only step of the     *)
(* call is the fallback return, and a call that returned takes no step.    *)
C19_OneTransactionPerCall ==
    [][\A c \in Calls :
          /\ (pc'[c] = "txn" /\ pc[c] # "txn") =>
                 \/ pc[c] = "idle"
                 \/ pc[c] = "commit" /\ ~Unchanged(c) /\ error[c] = "none"
          /\ (pc[c] = "catch" /\ Steps(c)) =>
                 /\ pc'[c] = "done"
                 /\ path'[c] = "fallback"
                 /\ users' = users
          /\ pc[c] = "done" => pc'[c] = "done"
          /\ error[c] # "none" => pc'[c] \in {"catch", "done"}]_vars

(* An attempt was discarded and re-run by the store, then the transaction  *)
(* was rejected and the call fell back.                                    *)
C19_Witness ==
    \E c, d \in Calls :
        /\ <<c, d>> \in contended
        /\ error[c] = "StoreUnavailable"
        /\ pc[c] = "done"
        /\ path[c] = "fallback"

(* C20: when signup completes, the record users/{uid} it stored has        *)
(* technicalTicketCount = 0 and serviceTicketCount = 0, and the first      *)
(* committed allocation of that user in each category returns the number   *)
(* 0001 with the prefix of the category.                                   *)
C20_SignupStartsAtZero ==
    /\ [][\A u \in Users :
             (u \notin DOMAIN users /\ u \in DOMAIN users') =>
                 /\ signingUp = u /\ signingUp' = "null"
                 /\ "technicalTicketCount" \in DOMAIN users'[u]
                 /\ "serviceTicketCount" \in DOMAIN users'[u]
                 /\ users'[u]["technicalTicketCount"] = 0
                 /\ users'[u]["serviceTicketCount"] = 0]_vars
    /\ [](\A u \in (DOMAIN users) \ (DOMAIN users0), cat \in Categories :
             Len(CommittedOf(u, cat)) >= 1 =>
                 ticketId[CommittedOf(u, cat)[1]]
                     = <<Letter(cat), "-", "0", "0", "0", "1">>)

(* A user signed up and then made a committed allocation in each category. *)
C20_Witness ==
    \E u \in (DOMAIN users) \ (DOMAIN users0) :
        /\ signingUp = "null"
        /\ \E c, d \in Calls :
              /\ userId[c] = u /\ userId[d] = u
              /\ path[c] = "txn" /\ path[d] = "txn"
              /\ ticketId[c] = <<"T", "-", "0", "0", "0", "1">>
              /\ ticketId[d] = <<"S", "-", "0", "0", "0", "1">>
        /\ users[u] = CounterDoc(1, 1)

(* An allocation made between the creation of the account and the storing  *)
(* of the record fell back; the record then started at 0 all the same.     *)
C20_EarlyCall ==
    \E u \in (DOMAIN users) \ (DOMAIN users0), c \in Calls :
        /\ userId[c] = u
        /\ error[c] = "UserRecordMissing"
        /\ path[c] = "fallback"
        /\ users[u] = CounterDoc(0, 0)

(* C21: provided the store's transaction call eventually resolves or       *)
(* rejects, every generateUserTicketId call that was made eventually       *)
(* returns: the allocator adds no wait or loop of its own.                 *)
C21_EveryCallReturns ==
    \A c \in Calls : (pc[c] \in {"txn", "commit", "catch"}) ~> (pc[c] = "done")

(* Both calls returned, one after its attempt was discarded and re-run,    *)
(* one after its transaction was rejected.                                 *)
C21_Witness ==
    /\ \A c \in Calls : pc[c] = "done"
    /\ contended # {}
    /\ \E c \in Calls : path[c] = "fallback" /\ error[c] = "StoreUnavailable"
    /\ \E c \in Calls : path[c] = "txn"

(* C22: in every state a signed-in account has its users/{uid} record, so  *)
(* no submission of the new-request screen finds the record missing.       *)
C22_SignedInHasRecord ==
    /\ user # "null" => user \in DOMAIN users
    /\ \A c \in Calls : submitting[c] => error[c] # "UserRecordMissing"

(* A signup failed after the account was created; the user stayed signed   *)
(* in without a record and a submission fell back on the missing record.   *)
C22_OrphanSubmits ==
    \E c \in Calls :
        /\ submitting[c]
        /\ signingUp = "null"
        /\ userId[c] = user
        /\ user \notin DOMAIN users
        /\ error[c] = "UserRecordMissing"
        /\ path[c] = "fallback"

(* C23: in every state the ID of every stored ticket begins with T- when   *)
(* the ticket's category is Technical and with S- when it is Service.      *)
C23_PrefixAgreesWithCategory ==
    \A i \in 1..Len(tickets) :
        startsWith(tickets[i].ticketId, <<Letter(tickets[i].category), "-">>)

(* Every allocation that ended so far ended by a commit. *)
NoFallbackSoFar ==
    presses - Cardinality({c \in Calls : InFlight(c)}) = Len(commitLog)

(* C24: as long as no allocation took the fallback path, no two tickets of *)
(* the same user carry the same ID, and the number of every stored ticket  *)
(* is at most the user's current counter for the ticket's prefix; for any  *)
(* interleaving of submissions, also when a ticket write fails after the   *)
(* counter was advanced.                                                   *)
C24_StoredIdsUnique ==
    NoFallbackSoFar =>
        /\ \A i, j \in 1..Len(tickets) :
               (i # j /\ tickets[i].owner = tickets[j].owner)
                   => tickets[i].ticketId # tickets[j].ticketId
        /\ \A i \in 1..Len(tickets) :
               numberOf(tickets[i].ticketId)
                   <= StoredCount(tickets[i].owner,
                                  getCategoryFromTicketId(tickets[i].ticketId))

(* Two overlapping submissions of one user committed; the write of the     *)
(* ticket numbered 4 failed and the ticket numbered 5 was stored: a gap.   *)
C24_Witness ==
    /\ NoFallbackSoFar
    /\ presses = 2
    /\ contended # {}
    /\ \A c \in Calls : ~InFlight(c) /\ ~submitting[c]
    /\ Len(tickets) = 1
    /\ tickets[1].ticketId = <<"T", "-", "0", "0", "0", "5">>
    /\ StoredCount(tickets[1].owner, "Technical") = 5

(* Two overlapping submissions of one user both stored their tickets. *)
C24_BothStored ==
    /\ NoFallbackSoFar
    /\ contended # {}
    /\ Len(tickets) = 2
    /\ tickets[1].owner = tickets[2].owner
    /\ tickets[1].category = tickets[2].category

(* The calls c and d were in flight at the same time. *)
Overlapped(c, d) == c \in inFlightAtCall[d] \/ d \in inFlightAtCall[c]

(* C25: when a Technical and a Service allocation of the same user ran     *)
(* concurrently and both committed, no update was lost: each counter of    *)
(* the user's record is higher than before by exactly the number of        *)
(* committed allocations of its category (by 1 for the two calls alone).   *)
C25_NoLostUpdate ==
    \A c, d \in Calls :
        (/\ userId[c] = userId[d]
         /\ category[c] = "Technical" /\ category[d] = "Service"
         /\ path[c] = "txn" /\ path[d] = "txn"
         /\ Overlapped(c, d))
            => \A cat \in Categories :
                   StoredCount(userId[c], cat)
                       = base(userId[c], cat) + Len(CommittedOf(userId[c], cat))

(* The two allocations met at the shared record: one attempt was discarded *)
(* and re-run, and both counters ended 1 higher.                           *)
C25_Witness ==
    \E c, d \in Calls :
        /\ userId[c] = userId[d]
        /\ category[c] = "Technical" /\ category[d] = "Service"
        /\ path[c] = "txn" /\ path[d] = "txn"
        /\ Overlapped(c, d)
        /\ (<<c, d>> \in contended \/ <<d, c>> \in contended)
        /\ users0[userId[c]] = CounterDoc(3, 0)
        /\ users[userId[c]] = CounterDoc(4, 1)

(* C26: from the moment logout() clears the user until the next successful *)
(* login, user and userData of the auth context stay null.                 *)
C26_StaysLoggedOut ==
    loggedOut => (user = "null" /\ ctxUserData = "null")

(* signOut resolved and the listener reported the signed-out state; then   *)
(* a callback that was awaiting fetchUserData set userData of the account. *)
C26_StaleUserData ==
    /\ loggedOut
    /\ currentUser = "null"
    /\ logoutPc = "idle"
    /\ inbox = <<>> /\ ~initPending /\ fetching = {}
    /\ ~effectStale
    /\ user = "null"
    /\ ctxUserData # "null"

(* C27: every logout() call eventually leaves isLoggingOut = false. *)
C27_FlagEventuallyReset ==
    isLoggingOut ~> ~isLoggingOut

(* signOut succeeded while the old listener was subscribed; the listener   *)
(* subscribed afterwards reported the signed-out state and reset the flag. *)
C27_Witness ==
    /\ loggedOut
    /\ ~isLoggingOut
    /\ listenerFlag
    /\ currentUser = "null"
    /\ logoutPc = "idle"
    /\ ~initPending
    /\ user = "null"

(* C28: no step changes the status or createdAt of a ticket; a write that  *)
(* leaves the history alone is the write of the awaited save and sets      *)
(* exactly the form's fields and modifiedAt; and handleSave calls          *)
(* updateDoc only with a valid form of which a field differs from the      *)
(* loaded values.                                                          *)
C28_SaveWritesFormOnly ==
    [][/\ \A i \in 1..Len(tickets) :
             /\ tickets'[i].status = tickets[i].status
             /\ tickets'[i].createdAt = tickets[i].createdAt
             /\ (tickets'[i] # tickets[i] /\ tickets'[i].history = tickets[i].history)
                   => /\ saving.doc = i
                      /\ tickets'[i] = [tickets[i] EXCEPT
                                           !.title = saving.form.title,
                                           !.category = saving.form.category,
                                           !.modifiedAt = now]
       /\ (saving' # saving /\ saving'.doc # 0)
             => /\ id # 0
                /\ validateForm
                /\ hasFormChanges
                /\ saving' = [doc |-> id, form |-> formData]]_vars

(* A ticket was saved and the screen was left; the status is still New. *)
C28_Witness ==
    /\ id = 0
    /\ saving.doc = 0
    /\ \E i \in 1..Len(tickets) :
          /\ tickets[i].modifiedAt > tickets[i].createdAt
          /\ tickets[i].history = <<>>
          /\ tickets[i].status = "New"
          /\ tickets[i].createdAt = 0

(* C29: the history of a ticket only grows; a step that changes it is the  *)
(* write of the awaited note, appends that one entry and changes nothing   *)
(* else of the ticket but modifiedAt; handleAddNote calls updateDoc only   *)
(* with a non-blank note, and the entry is of type 'note' and holds the    *)
(* trimmed text; when the write fails, the local history and the note box  *)
(* are as they were.                                                       *)
C29_HistoryAppendOnly ==
    [][/\ \A i \in 1..Len(tickets) :
             LET before == tickets[i].history
                 after == tickets'[i].history
             IN  /\ Len(after) >= Len(before)
                 /\ SubSeq(after, 1, Len(before)) = before
                 /\ after # before
                       => /\ addingNote.doc = i
                          /\ after = Append(before, addingNote.entry)
                          /\ tickets'[i] = [tickets[i] EXCEPT !.history = after,
                                                              !.modifiedAt = now]
       /\ (addingNote' # addingNote /\ addingNote'.doc # 0)
             => /\ id # 0
                /\ trim(newNote) # <<>>
                /\ addingNote'.doc = id
                /\ addingNote'.entry.type = "note"
                /\ addingNote'.entry.notes = trim(newNote)
       /\ (addingNote.doc # 0 /\ addingNote'.doc = 0 /\ tickets' = tickets)
             => /\ ticket' = ticket
                /\ newNote' = newNote]_vars

(* Two notes were added to the ticket on screen, one after the other. *)
C29_Witness ==
    /\ id # 0
    /\ addingNote.doc = 0
    /\ Len(tickets[id].history) = 2
    /\ \A i \in 1..2 : tickets[id].history[i].type = "note"
    /\ ticket = tickets[id].history
    /\ newNote = <<>>

(* C30: the back arrow leaves the screen at once only when no field of the *)
(* form differs from the loaded values and the note box is blank; while    *)
(* the dialog is open the screen is left only by the user's confirming;    *)
(* and Cancel closes the dialog with the form and the note as they were.   *)
C30_LeaveOnlyCleanOrConfirmed ==
    [][/\ (id # 0 /\ id' = 0 /\ ~showConfirmDialog /\ saving' = saving)
             => (~hasFormChanges /\ trim(newNote) = <<>>)
       /\ (id # 0 /\ id' = 0 /\ showConfirmDialog) => saving' = saving
       /\ (showConfirmDialog /\ ~showConfirmDialog' /\ id' # 0)
             => (formData' = formData /\ newNote' = newNote)]_vars

(* What does hold: a step of the back arrow or of the dialog's buttons     *)
(* (neither awaited write returns in it) leaves the screen only from a     *)
(* clean form or from the open dialog, and Cancel keeps form and note.     *)
C30_BackArrowGuarded ==
    [][(saving' = saving /\ addingNote' = addingNote)
          => /\ (id # 0 /\ id' = 0 /\ ~showConfirmDialog)
                   => (~hasFormChanges /\ trim(newNote) = <<>>)
             /\ (showConfirmDialog /\ ~showConfirmDialog' /\ id' # 0)
                   => (formData' = formData /\ newNote' = newNote)]_vars

====
